---- MODULE Spec2Model ----
(***************************************************************************)
(* Model of the two analysis engines of the repository:                    *)
(*   round1a_outline_extractor.py     PDFOutlineExtractor.extract_outline  *)
(*   round1b_document_intelligence.py PersonaDrivenAnalyzer                *)
(*                                      .analyze_documents                 *)
(* A text is a sequence of one-character strings.  A font size is an       *)
(* integer number of hundredths of a point (1200 is 12.0pt).  A similarity *)
(* score is an integer number of hundredths (30 is 0.3).                   *)
(***************************************************************************)
EXTENDS Integers, Sequences, FiniteSets, TLC

(***************************************************************************)
(* Python str and re primitives used by both engines.                      *)
(***************************************************************************)
UpperChars == <<"A", "B", "C", "D", "E", "F", "G", "H", "I", "J", "K", "L", "M", "N", "O", "P", "Q", "R", "S", "T", "U", "V", "W", "X", "Y", "Z">>

LowerChars == <<"a", "b", "c", "d", "e", "f", "g", "h", "i", "j", "k", "l", "m", "n", "o", "p", "q", "r", "s", "t", "u", "v", "w", "x", "y", "z">>

DigitChars == {"0", "1", "2", "3", "4", "5", "6", "7", "8", "9"}

IsSpace(c) == c \in {" ", "\n", "\t"}

IsUpperCh(c) == \E i \in 1..Len(UpperChars) : UpperChars[i] = c

IsLowerCh(c) == \E i \in 1..Len(LowerChars) : LowerChars[i] = c

IsCased(c) == IsUpperCh(c) \/ IsLowerCh(c)

\* str.lower() on one character
lower_ch(c) ==
    IF IsUpperCh(c)
    THEN LowerChars[CHOOSE i \in 1..Len(UpperChars) : UpperChars[i] = c]
    ELSE c

\* str.upper() on one character
upper_ch(c) ==
    IF IsLowerCh(c)
    THEN UpperChars[CHOOSE i \in 1..Len(LowerChars) : LowerChars[i] = c]
    ELSE c

\* str.lower()
lower(s) == [i \in 1..Len(s) |-> lower_ch(s[i])]

RECURSIVE lstrip(_)
lstrip(s) == IF s # <<>> /\ IsSpace(Head(s)) THEN lstrip(Tail(s)) ELSE s

RECURSIVE rstrip(_)
rstrip(s) ==
    IF s # <<>> /\ IsSpace(s[Len(s)]) THEN rstrip(SubSeq(s, 1, Len(s) - 1)) ELSE s

\* str.strip()
strip(s) == rstrip(lstrip(s))

\* re.sub(r'\s+', ' ', s): the first character of each run of whitespace
\* becomes a blank and the rest of the run goes
sub_ws(s) ==
    LET kept == SelectSeq([i \in 1..Len(s) |-> i],
                          LAMBDA i : ~IsSpace(s[i]) \/ i = 1 \/ ~IsSpace(s[i - 1]))
    IN  [k \in 1..Len(kept) |-> IF IsSpace(s[kept[k]]) THEN " " ELSE s[kept[k]]]

\* str.split('\n')
RECURSIVE split_nl(_)
split_nl(s) ==
    IF \E i \in 1..Len(s) : s[i] = "\n"
    THEN LET i == CHOOSE k \in 1..Len(s) :
                     s[k] = "\n" /\ \A j \in 1..(k - 1) : s[j] # "\n"
         IN  <<SubSeq(s, 1, i - 1)>> \o split_nl(SubSeq(s, i + 1, Len(s)))
    ELSE <<s>>

\* str.split()[0] of a stripped, non-empty text: its first whitespace-free run
RECURSIVE first_token(_)
first_token(s) ==
    IF s = <<>> \/ IsSpace(Head(s)) THEN <<>>
    ELSE <<Head(s)>> \o first_token(Tail(s))

\* len(re.findall(r'\.', s))
count_dots(s) == Cardinality({i \in 1..Len(s) : s[i] = "."})

\* kw in s
contains(s, kw) ==
    \E i \in 1..(Len(s) - Len(kw) + 1) : SubSeq(s, i, i + Len(kw) - 1) = kw

\* str.isupper(): at least one cased character and no lower-case one
isupper(s) ==
    /\ \E i \in 1..Len(s) : IsUpperCh(s[i])
    /\ \A i \in 1..Len(s) : ~IsLowerCh(s[i])

\* str.title() that leaves the text as it is
title_case_unchanged(s) == s

\* str.title(): a cased character is upper-cased after an uncased one (or at
\* the start) and lower-cased after a cased one
title_case(s) ==
    [i \in 1..Len(s) |->
        IF i = 1 \/ ~IsCased(s[i - 1]) THEN upper_ch(s[i]) ELSE lower_ch(s[i])]

RECURSIVE ScanDigits(_, _)
ScanDigits(s, i) ==
    IF i <= Len(s) /\ s[i] \in DigitChars THEN ScanDigits(s, i + 1) ELSE i

RECURSIVE ScanGroups(_, _)
ScanGroups(s, i) ==
    IF i + 1 <= Len(s) /\ s[i] = "." /\ s[i + 1] \in DigitChars
    THEN ScanGroups(s, ScanDigits(s, i + 1))
    ELSE i

RECURSIVE ScanSpaces(_, _)
ScanSpaces(s, i) ==
    IF i <= Len(s) /\ IsSpace(s[i]) THEN ScanSpaces(s, i + 1) ELSE i

\* re.match(r'^\d+(\.\d+)*\.?\s+', s): the length of the match, 0 when none
numbered_match(s) ==
    LET a == ScanDigits(s, 1)
        b == ScanGroups(s, a)
        c == IF b <= Len(s) /\ s[b] = "." THEN b + 1 ELSE b
        d == ScanSpaces(s, c)
    IN  IF a > 1 /\ d > c THEN d - 1 ELSE 0

\* re.sub(r'^\d+(\.\d+)*\.?\s+', '', s)
sub_numbered(s) == SubSeq(s, numbered_match(s) + 1, Len(s))

\* the f-string "H{n}"
HLevel(n) == <<"H1", "H2", "H3">>[n]

Min(a, b) == IF a <= b THEN a ELSE b

Max(a, b) == IF a >= b THEN a ELSE b

\* round(size, 1) on hundredths of a point: to the nearest tenth; a tie, which
\* only a size that binary floating point holds exactly (12.25) makes, goes to
\* the even tenth
round1(h) ==
    LET q == h \div 10
        r == h % 10
    IN  IF r < 5 THEN 10 * q
        ELSE IF r > 5 THEN 10 * (q + 1)
        ELSE IF q % 2 = 0 THEN 10 * q ELSE 10 * (q + 1)

\* list.sort(reverse=True) of distinct numbers
RECURSIVE SortDesc(_)
SortDesc(S) ==
    IF S = {} THEN <<>>
    ELSE LET m == CHOOSE x \in S : \A y \in S : y <= x
         IN  <<m>> \o SortDesc(S \ {m})

\* the concatenation of a sequence of sequences
RECURSIVE Flatten(_)
Flatten(seqs) == IF seqs = <<>> THEN <<>> ELSE Head(seqs) \o Flatten(Tail(seqs))

(***************************************************************************)
(* Round 1A: the outline engine.                                           *)
(***************************************************************************)
font_size_threshold == 200

common_headings ==
    << <<"i", "n", "t", "r", "o", "d", "u", "c", "t", "i", "o", "n">>,
       <<"c", "o", "n", "c", "l", "u", "s", "i", "o", "n">>,
       <<"a", "b", "s", "t", "r", "a", "c", "t">>,
       <<"s", "u", "m", "m", "a", "r", "y">>,
       <<"o", "v", "e", "r", "v", "i", "e", "w">>,
       <<"m", "e", "t", "h", "o", "d", "o", "l", "o", "g", "y">>,
       <<"r", "e", "s", "u", "l", "t", "s">>,
       <<"d", "i", "s", "c", "u", "s", "s", "i", "o", "n">>,
       <<"r", "e", "f", "e", "r", "e", "n", "c", "e", "s">>,
       <<"a", "p", "p", "e", "n", "d", "i", "x">>,
       <<"b", "a", "c", "k", "g", "r", "o", "u", "n", "d">>,
       <<"l", "i", "t", "e", "r", "a", "t", "u", "r", "e", " ", "r", "e", "v", "i", "e", "w">>,
       <<"a", "n", "a", "l", "y", "s", "i", "s">>,
       <<"f", "i", "n", "d", "i", "n", "g", "s">> >>

\* A span as fitz reports it: its text, its size, its flags (bit 4 is bold)
\* and the vertical position bbox[1].
Span(t, sz, fl, y) == [text |-> t, size |-> sz, flags |-> fl, y |-> y]

\* The lines the modelled documents are made of; a line is a sequence of spans.
LineIntroduction == <<Span(<<"1", ".", " ", "I", "n", "t", "r", "o", "d", "u", "c", "t", "i", "o", "n">>, 1200, 0, 100)>>

LineBackground == <<Span(<<"1", ".", "1", " ", "B", "a", "c", "k", "g", "r", "o", "u", "n", "d">>, 1200, 0, 120)>>

LineOverview == <<Span(<<"O", "v", "e", "r", "v", "i", "e", "w">>, 1600, 16, 50)>>

LineKeyFactsCaps == <<Span(<<"K", "E", "Y", " ", " ", "F", "A", "C", "T", "S">>, 1200, 0, 300)>>

LineKeyFactsBold == <<Span(<<"k", "e", "y", " ", "f", "a", "c", "t", "s", " ">>, 1404, 16, 150)>>

LineScope == <<Span(<<"1", ".", "1", ".", "1", " ">>, 1200, 0, 400), Span(<<"S", "c", "o", "p", "e">>, 1800, 16, 400)>>

LineDetails == <<Span(<<"D", "e", "t", "a", "i", "l", "s">>, 1560, 0, 250)>>

LineResultsCaps == <<Span(<<"R", "E", "S", "U", "L", "T", "S">>, 1200, 0, 350)>>

\* a line of 104 characters, words of 7 letters, one of the gaps a double blank
LineLongTitle ==
    <<Span([i \in 1..104 |-> IF i % 8 = 0 \/ i = 41 THEN " " ELSE "x"], 1600, 0, 60)>>

LineBody == <<Span(<<"t", "h", "e", " ", "b", "o", "d", "y", " ", "t", "e", "x", "t", ".">>, 1200, 0, 500)>>

\* The pages the modelled documents are made of; a page is a sequence of lines
\* (the lines of its text blocks, in reading order).
PageCatalogue ==
    { <<LineIntroduction, LineBackground>>,
      <<LineOverview, LineBody>>,
      <<LineKeyFactsCaps, LineKeyFactsBold>>,
      <<LineScope, LineIntroduction>>,
      <<LineBody, LineOverview, LineBackground, LineLongTitle>>,
      <<LineOverview, LineDetails, LineResultsCaps, LineBody>>,
      <<>> }

MaxPages == 3

MetadataTitles == {<<>>, <<"R", "e", "p", "o", "r", "t">>}

\* What fitz.open finds at pdf_path: an unreadable file, or a document of up
\* to MaxPages pages with a metadata title.
Documents ==
    {[readable |-> FALSE, pages |-> <<>>, metadata_title |-> <<>>]}
    \cup {[readable |-> TRUE, pages |-> p, metadata_title |-> m] :
            p \in UNION {[1..n -> PageCatalogue] : n \in 0..MaxPages},
            m \in MetadataTitles}

\* the text of a line: its spans' texts concatenated
line_text(line) == Flatten([i \in 1..Len(line) |-> line[i].text])

\* the largest span size of a line, 0 for a line without spans
RECURSIVE line_font_size(_)
line_font_size(line) ==
    IF line = <<>> THEN 0 ELSE Max(Head(line).size, line_font_size(Tail(line)))

\* page.get_text(): every line, each followed by a line break
get_text(page) == Flatten([i \in 1..Len(page) |-> line_text(page[i]) \o <<"\n">>])

\* the spans of a sequence of pages, in reading order
AllSpans(pages) == Flatten([p \in 1..Len(pages) |-> Flatten(pages[p])])

RECURSIVE SumTextLen(_)
SumTextLen(spans) ==
    IF spans = <<>> THEN 0 ELSE Len(Head(spans).text) + SumTextLen(Tail(spans))

_analyze_fonts(pages) ==
    LET spans == AllSpans(pages)
        keys == {round1(spans[i].size) : i \in 1..Len(spans)}
        usage(k) == SumTextLen(SelectSeq(spans, LAMBDA sp : round1(sp.size) = k))
        first(k) == CHOOSE i \in 1..Len(spans) :
                        /\ round1(spans[i].size) = k
                        /\ \A j \in 1..(i - 1) : round1(spans[j].size) # k
        \* Counter.most_common(1): the largest count, the first inserted on a tie
        body == CHOOSE k \in keys :
                    \A o \in keys :
                        \/ usage(o) < usage(k)
                        \/ usage(o) = usage(k) /\ first(k) <= first(o)
    IN  IF keys # {}
        THEN [body_font_size |-> body,
              heading_font_sizes |->
                  SortDesc({k \in keys : k > body + font_size_threshold})]
        ELSE [body_font_size |-> 1200, heading_font_sizes |-> <<1600, 1400>>]

\* _determine_heading_level without the tolerance: the level of the first
\* candidate size the font size reaches
_determine_heading_level_exact(font_size, heading_font_sizes) ==
    IF heading_font_sizes = <<>> THEN "H2"
    ELSE IF \E i \in 1..Len(heading_font_sizes) : font_size >= heading_font_sizes[i]
    THEN LET i == CHOOSE k \in 1..Len(heading_font_sizes) :
                     /\ font_size >= heading_font_sizes[k]
                     /\ \A j \in 1..(k - 1) : font_size < heading_font_sizes[j]
         IN  HLevel(Min(i, 3))
    ELSE "H3"

_determine_heading_level(font_size, heading_font_sizes) ==
    IF heading_font_sizes = <<>> THEN "H2"
    ELSE IF \E i \in 1..Len(heading_font_sizes) : font_size >= heading_font_sizes[i] - 50
    THEN LET i == CHOOSE k \in 1..Len(heading_font_sizes) :
                     /\ font_size >= heading_font_sizes[k] - 50
                     /\ \A j \in 1..(k - 1) : font_size < heading_font_sizes[j] - 50
         IN  HLevel(Min(i, 3))
    ELSE "H3"

Heading(lv, t, p, sz, st) ==
    [level |-> lv, text |-> t, page |-> p, font_size |-> sz, strategy |-> st]

_extract_by_font(page, page_num, body_font_size, heading_font_sizes) ==
    LET cand(line) ==
            LET t == strip(line_text(line))
                sz == line_font_size(line)
            IN  IF /\ t # <<>>
                   /\ Len(t) > 2
                   /\ Len(t) < 200
                   /\ sz > body_font_size + font_size_threshold
                THEN <<Heading(_determine_heading_level(sz, heading_font_sizes),
                               t, page_num + 1, sz, "font")>>
                ELSE <<>>
    IN  Flatten([i \in 1..Len(page) |-> cand(page[i])])

\* the heading level of a numbered line: one more than the dots of its first
\* token, capped at 3
numbered_level(line) == Min(count_dots(first_token(line)) + 1, 3)

_extract_by_patterns(page, page_num) ==
    LET lines == split_nl(get_text(page))
        cand(raw) ==
            LET line == strip(raw)
            IN  IF line = <<>> \/ Len(line) < 3 THEN <<>>
                ELSE IF numbered_match(line) > 0
                THEN <<Heading(HLevel(numbered_level(line)), sub_numbered(line),
                               page_num + 1, 0, "pattern")>>
                ELSE IF \E k \in 1..Len(common_headings) :
                            contains(lower(line), common_headings[k])
                THEN (IF Len(line) < 100
                      THEN <<Heading("H2", line, page_num + 1, 0, "pattern")>>
                      ELSE <<>>)
                ELSE IF isupper(line) /\ Len(line) < 80
                THEN <<Heading("H2", title_case(line), page_num + 1, 0, "pattern")>>
                ELSE <<>>
    IN  Flatten([i \in 1..Len(lines) |-> cand(lines[i])])

\* span["flags"] & 2**4
bold(flags) == (flags \div 16) % 2 = 1

_extract_by_position(page, page_num) ==
    LET cand(line) ==
            IF Len(line) = 1
            THEN LET t == strip(line[1].text)
                 IN  IF t # <<>> /\ Len(t) < 150 /\ bold(line[1].flags)
                     THEN <<Heading("H2", t, page_num + 1, line[1].size, "position")>>
                     ELSE <<>>
            ELSE <<>>
    IN  Flatten([i \in 1..Len(page) |-> cand(page[i])])

\* re.sub(r'\s+', ' ', text.lower().strip())
text_normalized(text) == sub_ws(strip(lower(text)))

\* the loop of _combine_strategies over all_headings, with seen_texts
RECURSIVE unique_headings(_, _)
unique_headings(hs, seen_texts) ==
    IF hs = <<>> THEN <<>>
    ELSE LET h == Head(hs)
             n == text_normalized(h.text)
         IN  IF n \notin seen_texts /\ Len(strip(h.text)) > 2
             THEN <<[h EXCEPT !.text = strip(h.text)]>>
                      \o unique_headings(Tail(hs), seen_texts \cup {n})
             ELSE unique_headings(Tail(hs), seen_texts)

\* list.sort(key=lambda x: x[2]): a stable sort by page
RECURSIVE sort_by_page(_)
sort_by_page(hs) ==
    IF hs = <<>> THEN <<>>
    ELSE LET m == CHOOSE i \in 1..Len(hs) :
                     /\ \A j \in 1..Len(hs) : hs[i].page <= hs[j].page
                     /\ \A j \in 1..(i - 1) : hs[j].page > hs[i].page
         IN  <<hs[m]>> \o sort_by_page(SubSeq(hs, 1, m - 1) \o SubSeq(hs, m + 1, Len(hs)))

_combine_strategies(font_hs, pattern_hs, position_hs) ==
    sort_by_page(unique_headings(font_hs \o pattern_hs \o position_hs, {}))

_structure_outline(headings) ==
    [i \in 1..Len(headings) |->
        [level |-> headings[i].level, text |-> headings[i].text,
         page |-> headings[i].page]]

\* longest that takes the last of the texts
last_candidate(texts) == texts[Len(texts)]

\* the first of the longest texts: max(title_candidates, key=len)
longest(texts) ==
    texts[CHOOSE i \in 1..Len(texts) :
              /\ \A j \in 1..Len(texts) : Len(texts[j]) <= Len(texts[i])
              /\ \A j \in 1..(i - 1) : Len(texts[j]) < Len(texts[i])]

\* _extract_title on a document with a first page
_extract_title(d) ==
    LET spans == Flatten(d.pages[1])
        texts_with_fonts ==
            SelectSeq([i \in 1..Len(spans) |->
                          [text |-> strip(spans[i].text), size |-> spans[i].size,
                           y |-> spans[i].y]],
                      LAMBDA t : t.text # <<>> /\ Len(t.text) > 3)
        max_font_size ==
            CHOOSE s \in {texts_with_fonts[i].size : i \in 1..Len(texts_with_fonts)} :
                \A i \in 1..Len(texts_with_fonts) : texts_with_fonts[i].size <= s
        kept == SelectSeq(texts_with_fonts,
                          LAMBDA t : t.size >= max_font_size - 100 /\ t.y < 200)
        title_candidates == [i \in 1..Len(kept) |-> kept[i].text]
        cleaned == strip(sub_ws(longest(title_candidates)))
        shorter_candidates == SelectSeq(title_candidates, LAMBDA t : Len(t) <= 100)
        metadata_title == strip(d.metadata_title)
    IN  IF texts_with_fonts # <<>> /\ title_candidates # <<>>
        THEN (IF Len(cleaned) > 100 /\ shorter_candidates # <<>>
              THEN shorter_candidates[1]
              ELSE cleaned)
        ELSE IF metadata_title # <<>> THEN metadata_title
        ELSE <<"U", "n", "t", "i", "t", "l", "e", "d", " ", "D", "o", "c", "u", "m", "e", "n", "t">>

\* OutlineError with the except clause returning the error alone
OutlineError_ErrorOnly(msg) == [error |-> msg]

\* the degraded result of extract_outline
OutlineError(msg) == [title |-> <<>>, outline |-> <<>>, error |-> msg]

VARIABLES
    a_pc,               \* extract_outline: the statement it is at
    pdf,                \* extract_outline: what is stored at pdf_path
    doc,                \* extract_outline: the handle, "none", "open" or "closed"
    title,              \* extract_outline: title
    font_stats,         \* _extract_headings: font_stats
    page_num,           \* _extract_headings: page_num
    font_headings,      \* _extract_headings: font_headings of the last page
    pattern_headings,   \* _extract_headings: pattern_headings of the last page
    position_headings,  \* _extract_headings: position_headings of the last page
    all_headings,       \* _extract_headings: all_headings
    outline,            \* extract_outline: outline
    outline_result      \* extract_outline: the value returned, "none" before

a_vars ==
    <<a_pc, pdf, doc, title, font_stats, page_num, font_headings, pattern_headings,
      position_headings, all_headings, outline, outline_result>>

VARIABLES
    b_pc,                \* analyze_documents: the statement it is at
    pdf_paths,           \* analyze_documents: what is stored at each of pdf_paths
    request,             \* analyze_documents: persona and job_to_be_done
    model,               \* the semantic encoder self.model
    open_docs,           \* the handles _extract_pdf_content opened and did not close
    documents_content,   \* analyze_documents: documents_content
    relevant_sections,   \* analyze_documents: relevant_sections
    ranked_scores,       \* the relevance_score of each of relevant_sections, in order
    keyword_scores,      \* _extract_relevant_sections: keyword_scores, in ten-thousandths
    section_idx,         \* _extract_subsections: the index of section in the loop
    sentences,           \* _extract_subsections: sentences
    sent_idx,            \* _extract_subsections: i
    current_subsection,  \* _extract_subsections: current_subsection
    subsection_count,    \* _extract_subsections: subsection_count
    appended,            \* the sub_sections.append calls made for this section
    sub_sections,        \* _extract_subsections: sub_sections, then the value returned
    analysis_result      \* analyze_documents: the value returned, "none" before

b_vars ==
    <<b_pc, pdf_paths, request, model, open_docs, documents_content, relevant_sections,
      ranked_scores, keyword_scores, section_idx, sentences, sent_idx, current_subsection,
      subsection_count, appended, sub_sections, analysis_result>>

NoFontStats == [body_font_size |-> 0, heading_font_sizes |-> <<>>]

\* the locals of extract_outline before they are assigned
a_locals_unset ==
    /\ title' = <<>>
    /\ font_stats' = NoFontStats
    /\ page_num' = 0
    /\ font_headings' = <<>>
    /\ pattern_headings' = <<>>
    /\ position_headings' = <<>>
    /\ all_headings' = <<>>
    /\ outline' = <<>>

a_Init ==
    /\ a_pc = "open"
    /\ pdf \in Documents
    /\ doc = "none"
    /\ title = <<>>
    /\ font_stats = NoFontStats
    /\ page_num = 0
    /\ font_headings = <<>>
    /\ pattern_headings = <<>>
    /\ position_headings = <<>>
    /\ all_headings = <<>>
    /\ outline = <<>>
    /\ outline_result = "none"

\* the except clause of extract_outline: the frame's locals go, the handle stays
a_except(msg) ==
    /\ a_pc' = "done"
    /\ outline_result' = OutlineError(msg)
    /\ a_locals_unset

\* doc = fitz.open(pdf_path)
a_open ==
    /\ a_pc = "open"
    /\ IF pdf.readable
       THEN /\ doc' = "open"
            /\ a_pc' = "title"
            /\ UNCHANGED <<title, font_stats, page_num, font_headings, pattern_headings,
                           position_headings, all_headings, outline, outline_result>>
       ELSE /\ a_except("cannot open file")
            /\ UNCHANGED doc
    /\ UNCHANGED pdf
    /\ UNCHANGED b_vars

\* title = self._extract_title(doc); doc[0] raises on a document without pages
a_title ==
    /\ a_pc = "title"
    /\ IF pdf.pages # <<>>
       THEN /\ title' = _extract_title(pdf)
            /\ a_pc' = "fonts"
            /\ UNCHANGED <<font_stats, page_num, font_headings, pattern_headings,
                           position_headings, all_headings, outline, outline_result>>
       ELSE a_except("page not in document")
    /\ UNCHANGED <<pdf, doc>>
    /\ UNCHANGED b_vars

\* _extract_headings up to its loop: font_stats = self._analyze_fonts(doc)
a_fonts ==
    /\ a_pc = "fonts"
    /\ font_stats' = _analyze_fonts(pdf.pages)
    /\ page_num' = 0
    /\ all_headings' = <<>>
    /\ a_pc' = "page"
    /\ UNCHANGED <<pdf, doc, title, font_headings, pattern_headings,
                   position_headings, outline, outline_result>>
    /\ UNCHANGED b_vars

\* extend with the page's headings put in front
extend_in_front(headings, page_headings) == page_headings \o headings

\* all_headings.extend(page_headings)
extend(headings, page_headings) == headings \o page_headings

\* one iteration of the loop of _extract_headings
a_page ==
    /\ a_pc = "page"
    /\ page_num < Len(pdf.pages)
    /\ LET page == pdf.pages[page_num + 1]
           fh == _extract_by_font(page, page_num, font_stats.body_font_size,
                                  font_stats.heading_font_sizes)
           ph == _extract_by_patterns(page, page_num)
           qh == _extract_by_position(page, page_num)
       IN  /\ font_headings' = fh
           /\ pattern_headings' = ph
           /\ position_headings' = qh
           /\ all_headings' = extend(all_headings, _combine_strategies(fh, ph, qh))
    /\ page_num' = page_num + 1
    /\ UNCHANGED <<a_pc, pdf, doc, title, font_stats, outline, outline_result>>
    /\ UNCHANGED b_vars

\* the loop ends; outline = self._structure_outline(headings)
a_structure ==
    /\ a_pc = "page"
    /\ page_num = Len(pdf.pages)
    /\ outline' = _structure_outline(all_headings)
    /\ a_pc' = "close"
    /\ UNCHANGED <<pdf, doc, title, font_stats, page_num, font_headings,
                   pattern_headings, position_headings, all_headings, outline_result>>
    /\ UNCHANGED b_vars

\* doc.close()
a_close ==
    /\ a_pc = "close"
    /\ doc' = "closed"
    /\ a_pc' = "return"
    /\ UNCHANGED <<pdf, title, font_stats, page_num, font_headings, pattern_headings,
                   position_headings, all_headings, outline, outline_result>>
    /\ UNCHANGED b_vars

\* the return statement; it evaluates len(doc) on the closed handle, which the
\* library may answer or refuse
a_return ==
    /\ a_pc = "return"
    /\ \E refused \in BOOLEAN :
          IF refused
          THEN a_except("document closed")
          ELSE /\ outline_result' =
                      [title |-> title, outline |-> outline,
                       metadata |-> [total_pages |-> Len(pdf.pages),
                                     headings_found |-> Len(outline)]]
               /\ a_pc' = "done"
               /\ a_locals_unset
    /\ UNCHANGED <<pdf, doc>>
    /\ UNCHANGED b_vars

\* any statement inside the try block raises
a_raise ==
    /\ a_pc \in {"title", "fonts", "page", "close", "return"}
    /\ a_except("unexpected failure")
    /\ UNCHANGED <<pdf, doc>>
    /\ UNCHANGED b_vars

(***************************************************************************)
(* Round 1B: the intelligence engine.                                      *)
(*                                                                         *)
(* The body text of the analysed documents is too long to keep character   *)
(* by character.  A text of this engine is a sequence of pieces joined by  *)
(* single spaces; a piece is a number, an index into Pieces, which gives   *)
(* what the code reads of it: its length, its number of words, whether it  *)
(* ends with a period and which keywords occur in it.  The sentence        *)
(* segmenter (nltk's sent_tokenize) is taken to cut a text at its pieces.  *)
(***************************************************************************)
KwRevenue == <<"r", "e", "v", "e", "n", "u", "e">>

KwRisk == <<"r", "i", "s", "k">>

KwInvestor == <<"i", "n", "v", "e", "s", "t", "o", "r">>

KwFind == <<"f", "i", "n", "d">>

Piece(n, w, d, k) == [len |-> n, words |-> w, dot |-> d, kws |-> k]

Pieces ==
    << Piece(15, 2, FALSE, {KwRevenue}),          \* 1  "Revenue Outlook"
       Piece(12, 2, FALSE, {KwRisk}),             \* 2  "Market Risks"
       Piece(4, 1, FALSE, {}),                    \* 3  "Team"
       Piece(18, 3, TRUE, {}),                    \* 4  "Notes on the year."
       Piece(33, 6, TRUE, {}),                    \* 5  a sentence
       Piece(34, 6, TRUE, {KwRevenue, KwRisk}),   \* 6  a sentence
       Piece(20, 4, TRUE, {}),                    \* 7  a short sentence
       Piece(60, 10, TRUE, {KwInvestor}),         \* 8  a long sentence
       Piece(33, 5, TRUE, {KwFind}),              \* 9  a sentence
       Piece(16, 2, FALSE, {}) >>                 \* 10 "Untitled Section"

UntitledSection == <<10>>

\* len(text) of a text without leading or trailing blanks
RECURSIVE text_len(_)
text_len(t) ==
    IF t = <<>> THEN 0
    ELSE Pieces[Head(t)].len + (IF Len(t) > 1 THEN 1 ELSE 0) + text_len(Tail(t))

\* len(text.split())
RECURSIVE word_count(_)
word_count(t) == IF t = <<>> THEN 0 ELSE Pieces[Head(t)].words + word_count(Tail(t))

\* text.endswith('.')
ends_with_dot(t) == t # <<>> /\ Pieces[t[Len(t)]].dot

\* keyword in text.lower()
has_keyword(t, kw) == \E i \in 1..Len(t) : kw \in Pieces[t[i]].kws

\* sent_tokenize(text)
sent_tokenize(t) == [i \in 1..Len(t) |-> <<t[i]>>]

\* A line of this engine: spans of a size and a text; span boundaries fall
\* between pieces.
BSpan(sz, t) == [size |-> sz, text |-> t]

HeaderLine(p) == <<BSpan(1400, <<p>>)>>

BodyLine(t) == <<BSpan(1100, t)>>

\* the 9 sentences of a section whose every group of 3 exceeds 100 characters
NineSentences(k) ==
    [i \in 1..9 |-> IF (i + k) % 4 = 0 THEN 6 ELSE IF (i + k) % 4 = 1 THEN 9 ELSE 5]

\* a page of n sections, each a header and one body line of 9 sentences
SectionPage(n, k) ==
    Flatten([s \in 1..n |->
                <<HeaderLine(1 + ((s + k) % 2)), BodyLine(NineSentences(s + k))>>])

\* a page that starts with body text, has a period-ended large line, short
\* sentence groups and a short trailing sentence
MixedPage ==
    << BodyLine(<<7>>),
       HeaderLine(1),
       BodyLine(<<7, 7, 7>>),
       <<BSpan(1400, <<4>>), BSpan(1100, <<5, 5, 5>>)>>,
       BodyLine(<<7>>),
       HeaderLine(3),
       HeaderLine(2),
       BodyLine(<<8, 7>>) >>

\* a page of two sections that the encoder sees as alike (their texts have the
\* same key): the first has no keyword of the request, the second holds the
\* sentence with "revenue risk"
ScenarioCPage ==
    << HeaderLine(2),
       BodyLine(<<4, 7, 5>>),
       HeaderLine(1),
       BodyLine(<<7, 6, 5>>) >>

SectionsPerPage == 4

FileCatalogue ==
    { [filename |-> "broken.pdf", readable |-> FALSE, pages |-> <<>>],
      [filename |-> "empty.pdf", readable |-> TRUE, pages |-> << <<>> >>],
      [filename |-> "mixed.pdf", readable |-> TRUE, pages |-> <<MixedPage>>],
      [filename |-> "c.pdf", readable |-> TRUE, pages |-> <<ScenarioCPage>>],
      [filename |-> "a.pdf", readable |-> TRUE,
       pages |-> <<SectionPage(SectionsPerPage, 0), SectionPage(SectionsPerPage, 1)>>],
      [filename |-> "b.pdf", readable |-> TRUE,
       pages |-> <<SectionPage(SectionsPerPage, 2), MixedPage,
                   SectionPage(SectionsPerPage, 3)>>] }

\* the text of a line of this engine
b_line_text(line) == Flatten([i \in 1..Len(line) |-> line[i].text])

\* the condition that makes a line a section header
is_header(line) ==
    LET t == b_line_text(line)
    IN  /\ line_font_size(line) > 1200
        /\ text_len(t) < 100
        /\ ~ends_with_dot(t)
        /\ text_len(t) > 5

\* The loop of _extract_pdf_content over the lines of one page: acc is
\* <<the sections appended so far, current_section>>.
RECURSIVE segment_lines(_, _)
segment_lines(lines, acc) ==
    IF lines = <<>> THEN acc
    ELSE LET t == b_line_text(Head(lines))
             cur == acc[2]
         IN  IF t = <<>> THEN segment_lines(Tail(lines), acc)
             ELSE IF is_header(Head(lines))
             THEN segment_lines(
                      Tail(lines),
                      <<(IF cur.content # <<>> THEN Append(acc[1], cur) ELSE acc[1]),
                        [title |-> t, content |-> <<>>,
                         font_size |-> line_font_size(Head(lines))]>>)
             ELSE segment_lines(
                      Tail(lines),
                      <<acc[1], [cur EXCEPT !.content = cur.content \o t]>>)

\* page_content without the final flush of the accumulator
page_content_no_final_flush(page, page_no) ==
    [page_number |-> page_no + 1,
     sections |-> segment_lines(page, << <<>>, [title |-> <<>>, content |-> <<>>,
                                              font_info |-> <<>>] >>)[1]]

\* the page_content of one page (full_text, which nothing reads, is left out)
page_content(page, page_no) ==
    LET acc == segment_lines(page, << <<>>, [title |-> <<>>, content |-> <<>>,
                                             font_info |-> <<>>] >>)
    IN  [page_number |-> page_no + 1,
         sections |-> IF acc[2].content # <<>> THEN Append(acc[1], acc[2]) ELSE acc[1]]

\* _extract_pdf_content on a file that opens
_extract_pdf_content(file) ==
    [filename |-> file.filename,
     pages |-> [p \in 1..Len(file.pages) |-> page_content(file.pages[p], p - 1)],
     total_pages |-> Len(file.pages)]

\* \w of the re module
IsWordCh(c) == IsCased(c) \/ c \in DigitChars \/ c = "_"

\* the maximal runs of word characters of s, in order
RECURSIVE word_runs(_, _)
word_runs(s, run) ==
    IF s = <<>> THEN (IF run = <<>> THEN <<>> ELSE <<run>>)
    ELSE IF IsWordCh(Head(s)) THEN word_runs(Tail(s), Append(run, Head(s)))
    ELSE (IF run = <<>> THEN <<>> ELSE <<run>>) \o word_runs(Tail(s), <<>>)

\* re.findall(r'\b\w{3,}\b', text)
findall_words(s) == SelectSeq(word_runs(s, <<>>), LAMBDA w : Len(w) >= 3)

stop_words ==
    { <<"t", "h", "e">>, <<"a", "n", "d">>, <<"f", "o", "r">>, <<"a", "r", "e">>, <<"b", "u", "t">>, <<"n", "o", "t">>,
      <<"y", "o", "u">>, <<"a", "l", "l">>, <<"c", "a", "n">>, <<"h", "e", "r">>, <<"w", "a", "s">>, <<"o", "n", "e">>,
      <<"o", "u", "r">>, <<"h", "a", "d">>, <<"h", "a", "s">>, <<"w", "h", "a", "t">>, <<"w", "h", "o">>, <<"w", "h", "e", "n">>,
      <<"w", "h", "e", "r", "e">>, <<"w", "h", "y">>, <<"h", "o", "w">>, <<"t", "h", "a", "t">>, <<"t", "h", "i", "s">>, <<"w", "i", "t", "h">>,
      <<"f", "r", "o", "m">>, <<"t", "h", "e", "y">>, <<"s", "h", "e">>, <<"h", "i", "m">>, <<"h", "i", "s">>, <<"i", "t", "s">>,
      <<"t", "h", "e", "i", "r">> }

_extract_keywords(text) ==
    LET keywords == SelectSeq(findall_words(text),
                              LAMBDA w : lower(w) \notin stop_words /\ Len(w) > 3)
    IN  SubSeq(keywords, 1, Min(10, Len(keywords)))

\* keyword_matches that finds no keyword in any text
keyword_matches_none(all_keywords, t) == 0

\* sum(1 for keyword in all_keywords if keyword in text_lower)
RECURSIVE keyword_matches(_, _)
keyword_matches(all_keywords, t) ==
    IF all_keywords = <<>> THEN 0
    ELSE (IF has_keyword(t, Head(all_keywords)) THEN 1 ELSE 0)
             + keyword_matches(Tail(all_keywords), t)

\* _calculate_keyword_scores: the scores in ten-thousandths.  The score of a
\* text before normalisation is the fraction m / w; the normalised score is
\* its quotient by the largest fraction.
_calculate_keyword_scores(texts, persona_text, job_text) ==
    LET all_keywords == _extract_keywords(lower(persona_text))
                            \o _extract_keywords(lower(job_text))
        m(i) == keyword_matches(all_keywords, texts[i])
        w(i) == Max(word_count(texts[i]), 1)
        top == CHOOSE i \in 1..Len(texts) :
                   \A j \in 1..Len(texts) : m(j) * w(i) <= m(i) * w(j)
    IN  [i \in 1..Len(texts) |->
            IF m(top) > 0 THEN (10000 * m(i) * w(top)) \div (w(i) * m(top)) ELSE 0]

\* The semantic encoder is one of NumEncoders deterministic functions of the
\* text; an embedding is kept as the encoder and a key of the text.
NumEncoders == 2

Similarities == <<-10, 20, 30, 40, 70, 90>>

RECURSIVE text_key(_)
text_key(t) == IF t = <<>> THEN 0 ELSE (Head(t) + 3 * text_key(Tail(t))) % 97

\* self.model.encode([text]) for a text of pieces
encode(enc, t) == [model |-> enc, key |-> text_key(t)]

\* cosine_similarity(embedding, persona_embedding or job_embedding)[0][0], in
\* hundredths
cosine_similarity(emb, target) ==
    LET k == IF target = "persona" THEN emb.key * (emb.model + 1) + emb.model
             ELSE emb.key * (emb.model + 2) + 3
    IN  Similarities[(k % Len(Similarities)) + 1]

\* del with the key left in place
del_nothing(d, key) == d

\* dict without a key: del d[key]
del(d, key) == [k \in DOMAIN d \ {key} |-> d[k]]

\* sort_by_score without reverse=True: ascending, stable
RECURSIVE sort_by_score_ascending(_)
sort_by_score_ascending(xs) ==
    IF xs = <<>> THEN <<>>
    ELSE LET m == CHOOSE i \in 1..Len(xs) :
                     /\ \A j \in 1..Len(xs) :
                            xs[i].relevance_score <= xs[j].relevance_score
                     /\ \A j \in 1..(i - 1) :
                            xs[j].relevance_score > xs[i].relevance_score
         IN  <<xs[m]>> \o sort_by_score_ascending(
                              SubSeq(xs, 1, m - 1) \o SubSeq(xs, m + 1, Len(xs)))

\* list.sort(key=lambda x: x["relevance_score"], reverse=True): stable
RECURSIVE sort_by_score(_)
sort_by_score(xs) ==
    IF xs = <<>> THEN <<>>
    ELSE LET m == CHOOSE i \in 1..Len(xs) :
                     /\ \A j \in 1..Len(xs) :
                            xs[j].relevance_score <= xs[i].relevance_score
                     /\ \A j \in 1..(i - 1) :
                            xs[j].relevance_score < xs[i].relevance_score
         IN  <<xs[m]>> \o sort_by_score(SubSeq(xs, 1, m - 1) \o SubSeq(xs, m + 1, Len(xs)))

\* the sections of documents_content that qualify for scoring
all_sections(contents) ==
    Flatten([d \in 1..Len(contents) |->
        Flatten([p \in 1..Len(contents[d].pages) |->
            LET page == contents[d].pages[p]
                kept == SelectSeq(page.sections, LAMBDA s : text_len(s.content) > 50)
            IN  [i \in 1..Len(kept) |->
                    [document |-> contents[d].filename,
                     page_number |-> page.page_number,
                     section_title |-> IF kept[i].title # <<>> THEN kept[i].title
                                       ELSE UntitledSection,
                     content |-> kept[i].content,
                     font_size |-> IF "font_size" \in DOMAIN kept[i]
                                   THEN kept[i].font_size ELSE 1200]]])])

\* combined_scores, in hundred-thousandths:
\* 0.4 * persona_similarities + 0.4 * job_similarities + 0.2 * keyword_scores
combined_scores(sections, enc, persona_text, job_text) ==
    LET section_texts == [i \in 1..Len(sections) |-> sections[i].content]
        kw_scores == _calculate_keyword_scores(section_texts, persona_text, job_text)
    IN  [i \in 1..Len(sections) |->
            400 * cosine_similarity(encode(enc, section_texts[i]), "persona")
            + 400 * cosine_similarity(encode(enc, section_texts[i]), "job")
            + 2 * kw_scores[i]]

\* scored_sections after the sort
scored_sections(contents, enc, persona_text, job_text) ==
    LET sections == all_sections(contents)
        scores == combined_scores(sections, enc, persona_text, job_text)
    IN  sort_by_score([i \in 1..Len(sections) |->
                          [relevance_score |-> scores[i], importance_rank |-> 0]
                              @@ sections[i]])

\* top_sections = scored_sections[:15]
top_sections(scored) == SubSeq(scored, 1, Min(15, Len(scored)))

\* the loop that assigns importance_rank and deletes relevance_score
rank_and_strip(top) ==
    [i \in 1..Len(top) |-> del([top[i] EXCEPT !.importance_rank = i], "relevance_score")]

_extract_relevant_sections(contents, enc, persona_text, job_text) ==
    IF all_sections(contents) = <<>> THEN <<>>
    ELSE rank_and_strip(
             top_sections(scored_sections(contents, enc, persona_text, job_text)))

\* sub_analysis_sections without the cut to 10
sub_analysis_sections_all(relevant) == relevant

\* relevant_sections[:10]
sub_analysis_sections(relevant) == SubSeq(relevant, 1, Min(10, Len(relevant)))

\* is_boundary with a boundary after every 2nd sentence
is_boundary_every_2nd(i, n) == (i + 1) % 2 = 0 \/ i = n - 1

\* the boundary test of the sentence loop, for index i of n sentences
is_boundary(i, n) == (i + 1) % 3 = 0 \/ i = n - 1

\* relevance_score = 0.5 * persona_sim + 0.5 * job_sim, in two-hundredths
subsection_score(enc, text) ==
    cosine_similarity(encode(enc, text), "persona")
    + cosine_similarity(encode(enc, text), "job")

\* relevance_score > 0.3
highly_relevant(score) == score > 60

\* subsection_id with the sequence counted from 0
subsection_id_from_zero(document, page_number, count) ==
    [document |-> document, p |-> page_number, s |-> count - 1]

\* the f-string "{document}_p{page_number}_s{subsection_count}"; the two
\* numbers end the string and hold no underscore, so two such strings are
\* equal exactly when their three parts are, and the string is kept as its
\* parts
subsection_id(document, page_number, count) ==
    [document |-> document, p |-> page_number, s |-> count]

\* final_subsections: the sort, the cut to 20 and the deletion of the score
final_subsections(subs) ==
    LET sorted == sort_by_score(subs)
        top == SubSeq(sorted, 1, Min(20, Len(sorted)))
    IN  [i \in 1..Len(top) |-> del(top[i], "relevance_score")]

Requests ==
    { [persona |-> <<"I", "n", "v", "e", "s", "t", "o", "r">>, job |-> <<"f", "i", "n", "d", " ", "r", "e", "v", "e", "n", "u", "e", " ", "r", "i", "s", "k">>],
      [persona |-> <<"R", "i", "s", "k", " ", "a", "n", "a", "l", "y", "s", "t", " ", "f", "o", "r", " ", "t", "h", "e", " ", "f", "u", "n", "d">>, job |-> <<"F", "i", "n", "d", " ", "t", "h", "e", " ", "r", "i", "s", "k">>] }

MaxDocs == 2

b_Init ==
    /\ b_pc = "extract"
    /\ pdf_paths \in UNION {[1..n -> FileCatalogue] : n \in 1..MaxDocs}
    /\ request \in Requests
    /\ model \in 1..NumEncoders
    /\ open_docs = 0
    /\ documents_content = <<>>
    /\ relevant_sections = <<>>
    /\ ranked_scores = <<>>
    /\ keyword_scores = <<>>
    /\ section_idx = 0
    /\ sentences = <<>>
    /\ sent_idx = 0
    /\ current_subsection = <<>>
    /\ subsection_count = 0
    /\ appended = 0
    /\ sub_sections = <<>>
    /\ analysis_result = "none"

b_inputs == <<pdf_paths, request, model>>

\* the locals of _extract_subsections
b_loop_locals ==
    <<section_idx, sentences, sent_idx, current_subsection, subsection_count, appended,
      sub_sections>>

\* the except clause of analyze_documents: the frame's locals go
b_except(msg) ==
    /\ b_pc' = "done"
    /\ analysis_result' = [error |-> msg]
    /\ documents_content' = <<>>
    /\ relevant_sections' = <<>>
    /\ ranked_scores' = <<>>
    /\ keyword_scores' = <<>>
    /\ section_idx' = 0
    /\ sentences' = <<>>
    /\ sent_idx' = 0
    /\ current_subsection' = <<>>
    /\ subsection_count' = 0
    /\ appended' = 0
    /\ sub_sections' = <<>>

\* one iteration of the loop over pdf_paths: _extract_pdf_content opens the
\* file, reads it and closes it; fitz.open raises on an unreadable file
b_extract ==
    /\ b_pc = "extract"
    /\ Len(documents_content) < Len(pdf_paths)
    /\ LET file == pdf_paths[Len(documents_content) + 1]
       IN  IF file.readable
           THEN /\ documents_content' =
                       Append(documents_content, _extract_pdf_content(file))
                /\ UNCHANGED <<b_pc, relevant_sections, ranked_scores, keyword_scores,
                               analysis_result>>
                /\ UNCHANGED b_loop_locals
           ELSE b_except("cannot open file")
    /\ UNCHANGED <<b_inputs, open_docs>>
    /\ UNCHANGED a_vars

\* a page of the file raises while _extract_pdf_content reads it: the handle
\* is left open
b_extract_raise ==
    /\ b_pc = "extract"
    /\ Len(documents_content) < Len(pdf_paths)
    /\ pdf_paths[Len(documents_content) + 1].readable
    /\ open_docs' = open_docs + 1
    /\ b_except("cannot read page")
    /\ UNCHANGED b_inputs
    /\ UNCHANGED a_vars

\* the two encode calls and _extract_relevant_sections
b_rank ==
    /\ b_pc = "extract"
    /\ Len(documents_content) = Len(pdf_paths)
    /\ relevant_sections' =
           _extract_relevant_sections(documents_content, model, request.persona,
                                      request.job)
    /\ ranked_scores' =
           LET top == top_sections(scored_sections(documents_content, model,
                                                   request.persona, request.job))
           IN  [i \in 1..Len(top) |-> top[i].relevance_score]
    /\ keyword_scores' =
           LET sections == all_sections(documents_content)
           IN  IF sections = <<>> THEN <<>>
               ELSE _calculate_keyword_scores(
                        [i \in 1..Len(sections) |-> sections[i].content],
                        request.persona, request.job)
    /\ section_idx' = 0
    /\ sub_sections' = <<>>
    /\ b_pc' = "section"
    /\ UNCHANGED <<b_inputs, open_docs, documents_content, sentences, sent_idx,
                   current_subsection, subsection_count, appended, analysis_result>>
    /\ UNCHANGED a_vars

\* the head of the loop over relevant_sections[:10]
b_section ==
    /\ b_pc = "section"
    /\ section_idx < Len(sub_analysis_sections(relevant_sections))
    /\ sentences' = sent_tokenize(relevant_sections[section_idx + 1].content)
    /\ current_subsection' = <<>>
    /\ subsection_count' = 0
    /\ appended' = 0
    /\ sent_idx' = 0
    /\ b_pc' = "sentence"
    /\ UNCHANGED <<b_inputs, open_docs, documents_content, relevant_sections,
                   ranked_scores, keyword_scores, section_idx, sub_sections,
                   analysis_result>>
    /\ UNCHANGED a_vars

\* buffer_after with the reset moved out of the if: at every boundary
buffer_after_reset_at_boundary(buf, i, n) == IF is_boundary(i, n) THEN <<>> ELSE buf

\* current_subsection after one iteration of the sentence loop whose buffer,
\* with the sentence added, is buf
buffer_after(buf, i, n) ==
    IF is_boundary(i, n) /\ text_len(buf) > 100 THEN <<>> ELSE buf

\* one iteration of the loop over sentences
b_sentence ==
    /\ b_pc = "sentence"
    /\ sent_idx < Len(sentences)
    /\ LET section == relevant_sections[section_idx + 1]
           buf == current_subsection \o sentences[sent_idx + 1]
           emit == is_boundary(sent_idx, Len(sentences)) /\ text_len(buf) > 100
           score == subsection_score(model, buf)
       IN  /\ current_subsection' = buffer_after(buf, sent_idx, Len(sentences))
           /\ subsection_count' = IF emit THEN subsection_count + 1 ELSE subsection_count
           /\ IF emit /\ highly_relevant(score)
              THEN /\ sub_sections' =
                          Append(sub_sections,
                                 [document |-> section.document,
                                  page_number |-> section.page_number,
                                  parent_section |-> section.section_title,
                                  subsection_id |->
                                      subsection_id(section.document, section.page_number,
                                                    subsection_count + 1),
                                  refined_text |-> buf,
                                  relevance_score |-> score])
                   /\ appended' = appended + 1
              ELSE UNCHANGED <<sub_sections, appended>>
    /\ sent_idx' = sent_idx + 1
    /\ UNCHANGED <<b_pc, b_inputs, open_docs, documents_content, relevant_sections,
                   ranked_scores, keyword_scores, section_idx, sentences,
                   analysis_result>>
    /\ UNCHANGED a_vars

\* the sentences of the section are exhausted: on to the next section
b_section_end ==
    /\ b_pc = "sentence"
    /\ sent_idx = Len(sentences)
    /\ section_idx' = section_idx + 1
    /\ b_pc' = "section"
    /\ UNCHANGED <<b_inputs, open_docs, documents_content, relevant_sections,
                   ranked_scores, keyword_scores, sentences, sent_idx,
                   current_subsection, subsection_count, appended, sub_sections,
                   analysis_result>>
    /\ UNCHANGED a_vars

\* the end of _extract_subsections: sort, cut and strip
b_cut ==
    /\ b_pc = "section"
    /\ section_idx = Len(sub_analysis_sections(relevant_sections))
    /\ sub_sections' = final_subsections(sub_sections)
    /\ b_pc' = "return"
    /\ UNCHANGED <<b_inputs, open_docs, documents_content, relevant_sections,
                   ranked_scores, keyword_scores, section_idx, sentences, sent_idx,
                   current_subsection, subsection_count, appended, analysis_result>>
    /\ UNCHANGED a_vars

\* result = {...}; return result
b_return ==
    /\ b_pc = "return"
    /\ analysis_result' =
           [metadata |-> [input_documents |->
                              [i \in 1..Len(pdf_paths) |-> pdf_paths[i].filename],
                          persona |-> request.persona,
                          job_to_be_done |-> request.job,
                          total_documents |-> Len(pdf_paths)],
            extracted_sections |-> relevant_sections,
            sub_section_analysis |-> sub_sections]
    /\ b_pc' = "done"
    /\ documents_content' = <<>>
    /\ relevant_sections' = <<>>
    /\ section_idx' = 0
    /\ sentences' = <<>>
    /\ sent_idx' = 0
    /\ current_subsection' = <<>>
    /\ subsection_count' = 0
    /\ appended' = 0
    /\ sub_sections' = <<>>
    /\ UNCHANGED <<b_inputs, open_docs, ranked_scores, keyword_scores>>
    /\ UNCHANGED a_vars

\* a call into the encoder or the sentence segmenter raises
b_raise ==
    /\ b_pc \in {"extract", "section", "sentence", "return"}
    /\ b_except("unexpected failure")
    /\ UNCHANGED <<b_inputs, open_docs>>
    /\ UNCHANGED a_vars

vars == <<a_vars, b_vars>>

\* analyze_documents is not running
b_idle ==
    /\ b_pc = "idle"
    /\ pdf_paths = <<>>
    /\ request = "none"
    /\ model = 0
    /\ open_docs = 0
    /\ documents_content = <<>>
    /\ relevant_sections = <<>>
    /\ ranked_scores = <<>>
    /\ keyword_scores = <<>>
    /\ section_idx = 0
    /\ sentences = <<>>
    /\ sent_idx = 0
    /\ current_subsection = <<>>
    /\ subsection_count = 0
    /\ appended = 0
    /\ sub_sections = <<>>
    /\ analysis_result = "none"

\* extract_outline is not running
a_idle ==
    /\ a_pc = "idle"
    /\ pdf = "none"
    /\ doc = "none"
    /\ title = <<>>
    /\ font_stats = NoFontStats
    /\ page_num = 0
    /\ font_headings = <<>>
    /\ pattern_headings = <<>>
    /\ position_headings = <<>>
    /\ all_headings = <<>>
    /\ outline = <<>>
    /\ outline_result = "none"

\* The caller runs one of the two entry points: extract_outline on a document
\* of Documents, or analyze_documents on a batch of files of FileCatalogue.
Init == (a_Init /\ b_idle) \/ (b_Init /\ a_idle)

Next ==
    \/ a_open
    \/ a_title
    \/ a_fonts
    \/ a_page
    \/ a_structure
    \/ a_close
    \/ a_return
    \/ a_raise
    \/ b_extract
    \/ b_extract_raise
    \/ b_rank
    \/ b_section
    \/ b_sentence
    \/ b_section_end
    \/ b_cut
    \/ b_return
    \/ b_raise

Spec == Init /\ [][Next]_vars

(***************************************************************************)
(* The claims.                                                             *)
(***************************************************************************)
\* extract_outline has returned an outline result without an error field
OutlineReturned == a_pc = "done" /\ "error" \notin DOMAIN outline_result

\* analyze_documents has returned an analysis result without an error field
AnalysisReturned == b_pc = "done" /\ "error" \notin DOMAIN analysis_result

\* C1: in every outline extract_outline returns, no two entries have the same
\* normalized text (whitespace collapsed, case-folded), entries of different
\* pages included.
C1_NoTwoEntriesShareNormalizedText ==
    OutlineReturned =>
        \A i, j \in 1..Len(outline_result.outline) :
            i # j => text_normalized(outline_result.outline[i].text)
                         # text_normalized(outline_result.outline[j].text)

\* the sections the readable files of a batch qualify for scoring
ReadableContent(paths) ==
    [i \in 1..Len(paths) |->
        IF paths[i].readable THEN _extract_pdf_content(paths[i])
        ELSE [filename |-> paths[i].filename, pages |-> <<>>, total_pages |-> 0]]

\* C2: in a batch of several documents of which one cannot be opened, and in
\* which nothing else fails, the result has no top-level error and
\* extracted_sections holds the ranked sections of the readable documents.
C2_UnreadableDocumentIsIsolated ==
    ( /\ b_pc = "done"
      /\ Len(pdf_paths) >= 2
      /\ \E i \in 1..Len(pdf_paths) : ~pdf_paths[i].readable
      /\ \E i \in 1..Len(pdf_paths) :
             pdf_paths[i].readable /\ all_sections(ReadableContent(<<pdf_paths[i]>>)) # <<>>
      /\ analysis_result \notin {[error |-> "unexpected failure"],
                                 [error |-> "cannot read page"]} )
    => /\ "error" \notin DOMAIN analysis_result
       /\ analysis_result.extracted_sections =
              _extract_relevant_sections(ReadableContent(pdf_paths), model,
                                         request.persona, request.job)

\* C3: on a page whose lines are "1. Introduction" and "1.1 Background" the
\* pattern strategy yields, in this order, an H1 heading "Introduction" and an
\* H2 heading "Background".
C3_NumberedLinesGetLevelByDepth ==
    ( /\ a_pc = "page"
      /\ page_num >= 1
      /\ pdf.pages[page_num] = <<LineIntroduction, LineBackground>> )
    => [i \in 1..Len(pattern_headings) |->
           <<pattern_headings[i].level, pattern_headings[i].text>>]
       = << <<"H1", <<"I", "n", "t", "r", "o", "d", "u", "c", "t", "i", "o", "n">>>>,
            <<"H2", <<"B", "a", "c", "k", "g", "r", "o", "u", "n", "d">>>> >>

\* C4: no failure leaves an entry point without a result.  Whenever
\* extract_outline is done it has returned either a result without an error
\* field or exactly {title: "", outline: [], error: message}, the latter on
\* every document that cannot be opened or has no first page; whenever
\* analyze_documents is done it has returned either a result without an error
\* field or exactly {error: message}, the latter on every batch with a file
\* that cannot be opened.
C4_FailuresBecomeDegradedResults ==
    /\ a_pc = "done" =>
          /\ IF "error" \in DOMAIN outline_result
             THEN /\ DOMAIN outline_result = {"title", "outline", "error"}
                  /\ outline_result.title = <<>>
                  /\ outline_result.outline = <<>>
             ELSE DOMAIN outline_result = {"title", "outline", "metadata"}
          /\ (~pdf.readable \/ pdf.pages = <<>>) => "error" \in DOMAIN outline_result
    /\ b_pc = "done" =>
          /\ IF "error" \in DOMAIN analysis_result
             THEN DOMAIN analysis_result = {"error"}
             ELSE DOMAIN analysis_result =
                      {"metadata", "extracted_sections", "sub_section_analysis"}
          /\ (\E i \in 1..Len(pdf_paths) : ~pdf_paths[i].readable)
                 => "error" \in DOMAIN analysis_result

\* C4 witness: a failure of a step after the open, or an unreadable second
\* file of a batch, has produced the degraded result
C4_Witness ==
    \/ a_pc = "done" /\ pdf.readable /\ pdf.pages # <<>>
           /\ outline_result = OutlineError("unexpected failure")
    \/ b_pc = "done" /\ Len(pdf_paths) >= 2 /\ pdf_paths[1].readable
           /\ analysis_result = [error |-> "cannot open file"]

\* C5: in every analysis result without an error, the importance_rank values
\* of extracted_sections are 1, 2, ..., N in array order, and the combined
\* relevance scores of the entries do not increase along the array.
C5_RanksAreDenseAndScoresDescend ==
    AnalysisReturned =>
        LET es == analysis_result.extracted_sections
        IN  /\ \A i \in 1..Len(es) : es[i].importance_rank = i
            /\ Len(ranked_scores) = Len(es)
            /\ \A i \in 1..(Len(es) - 1) : ranked_scores[i] >= ranked_scores[i + 1]

\* C5 witness: a result whose sections were reordered by the sort: the first
\* document's first qualifying section is not ranked first, and scores differ
C5_Witness ==
    /\ AnalysisReturned
    /\ Len(analysis_result.extracted_sections) >= 3
    /\ ranked_scores[1] > ranked_scores[Len(ranked_scores)]
    /\ LET first == all_sections(ReadableContent(pdf_paths))[1]
           top == analysis_result.extracted_sections[1]
       IN  <<first.document, first.page_number, first.content>>
               # <<top.document, top.page_number, top.content>>

\* s is a run of consecutive pieces of t
IsRunOf(s, t) == \E k \in 0..(Len(t) - Len(s)) : SubSeq(t, k + 1, k + Len(s)) = s

\* C6: in every analysis result without an error, extracted_sections has at
\* most 15 entries, sub_section_analysis has at most 20, and every entry of
\* sub_section_analysis carries the document, page and title of one of the
\* first 10 entries of extracted_sections and a run of its content.
C6_CutsAt15And20FromTop10 ==
    AnalysisReturned =>
        LET es == analysis_result.extracted_sections
            ss == analysis_result.sub_section_analysis
        IN  /\ Len(es) <= 15
            /\ Len(ss) <= 20
            /\ \A i \in 1..Len(ss) :
                   \E k \in 1..Len(es) :
                       /\ k <= 10
                       /\ ss[i].document = es[k].document
                       /\ ss[i].page_number = es[k].page_number
                       /\ ss[i].parent_section = es[k].section_title
                       /\ IsRunOf(ss[i].refined_text, es[k].content)

\* C6 witness: all three cuts have cut: more than 15 sections qualified, 15
\* were returned, and 20 subsections were returned
C6_Witness ==
    /\ AnalysisReturned
    /\ Len(all_sections(ReadableContent(pdf_paths))) > 15
    /\ Len(analysis_result.extracted_sections) = 15
    /\ Len(analysis_result.sub_section_analysis) = 20

\* C7: no returned structure has a relevance_score key: not the result, not
\* its metadata, not an entry of outline, of extracted_sections or of
\* sub_section_analysis.
C7_NoRelevanceScoreInOutput ==
    /\ a_pc = "done" =>
          /\ "relevance_score" \notin DOMAIN outline_result
          /\ \A i \in 1..Len(outline_result.outline) :
                 "relevance_score" \notin DOMAIN outline_result.outline[i]
    /\ b_pc = "done" => "relevance_score" \notin DOMAIN analysis_result
    /\ AnalysisReturned =>
          /\ "relevance_score" \notin DOMAIN analysis_result.metadata
          /\ \A i \in 1..Len(analysis_result.extracted_sections) :
                 "relevance_score" \notin DOMAIN analysis_result.extracted_sections[i]
          /\ \A i \in 1..Len(analysis_result.sub_section_analysis) :
                 "relevance_score" \notin DOMAIN analysis_result.sub_section_analysis[i]

\* C7 witness: a result with scored sections and scored subsections
C7_Witness ==
    /\ AnalysisReturned
    /\ analysis_result.extracted_sections # <<>>
    /\ analysis_result.sub_section_analysis # <<>>
    /\ \E i \in 1..Len(ranked_scores) : ranked_scores[i] > 0

\* C8: in every outline extract_outline returns, the page field does not
\* decrease along the array and lies between 1 and the document's page count.
C8_PagesAscendWithinDocument ==
    OutlineReturned =>
        LET o == outline_result.outline
        IN  /\ \A i \in 1..(Len(o) - 1) : o[i].page <= o[i + 1].page
            /\ \A i \in 1..Len(o) : o[i].page >= 1 /\ o[i].page <= Len(pdf.pages)

\* C8 witness: an outline with entries of the first and of the last of three
\* pages
C8_Witness ==
    /\ OutlineReturned
    /\ Len(pdf.pages) = 3
    /\ \E i, j \in 1..Len(outline_result.outline) :
           outline_result.outline[i].page = 1 /\ outline_result.outline[j].page = 3

\* the sentence loop takes a step at a boundary (after every 3rd sentence and
\* after the last one)
BoundaryStep ==
    /\ b_pc = "sentence"
    /\ sent_idx < Len(sentences)
    /\ sent_idx' = sent_idx + 1
    /\ is_boundary(sent_idx, Len(sentences))

NineSentenceSectionDone ==
    /\ b_pc = "sentence"
    /\ Len(sentences) = 9
    /\ sent_idx = 9
    /\ \A g \in 0..2 :
           text_len(sentences[3 * g + 1] \o sentences[3 * g + 2] \o sentences[3 * g + 3])
               > 100

\* C10 as stated: such a section yields exactly 3 subsections.
C10_NineSentencesYieldThree == NineSentenceSectionDone => appended = 3

\* C10 as amended: such a section yields exactly 3 subsection candidates, and
\* the subsections appended for it are those of the 3 candidates whose score
\* exceeds 0.3: 3 when all do, fewer otherwise.
C10_NineSentencesYieldThreeCandidates ==
    NineSentenceSectionDone =>
        /\ subsection_count = 3
        /\ current_subsection = <<>>
        /\ appended =
               Cardinality({g \in 0..2 :
                   highly_relevant(subsection_score(
                       model,
                       sentences[3 * g + 1] \o sentences[3 * g + 2] \o sentences[3 * g + 3]))})
        /\ appended <= Len(sub_sections)

\* C10 witness: such a section with three candidates of which one or two were
\* appended
C10_Witness == NineSentenceSectionDone /\ appended \in {1, 2}

\* the request of persona "Investor" and job "find revenue risk"
InvestorRequest ==
    /\ request.persona = <<"I", "n", "v", "e", "s", "t", "o", "r">>
    /\ request.job = <<"f", "i", "n", "d", " ", "r", "e", "v", "e", "n", "u", "e", " ", "r", "i", "s", "k">>

\* pooled sections a and b have equal persona and equal job similarity, a
\* contains "revenue risk" and b contains no keyword of the request
RevenueRiskPair(a, b) ==
    /\ cosine_similarity(encode(model, a.content), "persona")
           = cosine_similarity(encode(model, b.content), "persona")
    /\ cosine_similarity(encode(model, a.content), "job")
           = cosine_similarity(encode(model, b.content), "job")
    /\ has_keyword(a.content, KwRevenue) /\ has_keyword(a.content, KwRisk)
    /\ \A kw \in {KwInvestor, KwFind, KwRevenue, KwRisk} : ~has_keyword(b.content, kw)

\* entry e of extracted_sections is the pooled section s
IsEntryOf(e, s) ==
    /\ e.document = s.document
    /\ e.page_number = s.page_number
    /\ e.section_title = s.section_title
    /\ e.content = s.content

\* C11: with persona "Investor" and job "find revenue risk", of two pooled
\* sections with equal persona similarity and equal job similarity, the one
\* that contains "revenue risk" gets a strictly higher combined score than the
\* one without any keyword, and so a smaller importance_rank: wherever the
\* latter is in extracted_sections, the former is before it with a higher score.
C11_RevenueRiskSectionOutranks ==
    (AnalysisReturned /\ InvestorRequest) =>
        LET pool == all_sections(ReadableContent(pdf_paths))
            es == analysis_result.extracted_sections
        IN  \A a, b \in 1..Len(pool) :
                RevenueRiskPair(pool[a], pool[b]) =>
                    \A k \in 1..Len(es) :
                        IsEntryOf(es[k], pool[b]) =>
                            \E l \in 1..(k - 1) :
                                /\ IsEntryOf(es[l], pool[a])
                                /\ es[l].importance_rank < es[k].importance_rank
                                /\ ranked_scores[l] > ranked_scores[k]

\* C11 witness: such a pair is ranked, and the section without keywords comes
\* first in the traversal of the documents
C11_Witness ==
    /\ AnalysisReturned
    /\ InvestorRequest
    /\ LET pool == all_sections(ReadableContent(pdf_paths))
           es == analysis_result.extracted_sections
       IN  \E a, b \in 1..Len(pool) :
               /\ b < a
               /\ RevenueRiskPair(pool[a], pool[b])
               /\ pool[a].content # pool[b].content
               /\ \E k \in 1..Len(es) : IsEntryOf(es[k], pool[b])

\* the candidates the three strategies propose for one line of a page, in the
\* order font, pattern, position
LineCandidates(line, page_no) ==
    << _extract_by_font(<<line>>, page_no, font_stats.body_font_size,
                        font_stats.heading_font_sizes),
       _extract_by_patterns(<<line>>, page_no),
       _extract_by_position(<<line>>, page_no) >>

\* C12: on each page, a line proposed as a heading by more than one strategy
\* produces exactly one entry for that page, and the entry carries the level
\* of the first strategy, in the order font, pattern, position, that proposed
\* the line.
C12_OneEntryPerLineProposedTwice ==
    (a_pc = "page" /\ page_num >= 1) =>
        \A li \in 1..Len(pdf.pages[page_num]) :
            LET cs == LineCandidates(pdf.pages[page_num][li], page_num - 1)
                all == cs[1] \o cs[2] \o cs[3]
                entries ==
                    SelectSeq(all_headings,
                              LAMBDA h : /\ h.page = page_num
                                         /\ \E c \in 1..Len(all) :
                                                h.text = strip(all[c].text))
            IN  Cardinality({k \in 1..3 : cs[k] # <<>>}) >= 2 =>
                    /\ Len(entries) = 1
                    /\ entries[1].level = all[1].level

\* C13: a readable document without extractable text (no pages, or pages
\* without text spans), on which no step fails for another reason, yields a
\* result without an error field from both entry points: an empty outline
\* from extract_outline, an empty extracted_sections and an empty
\* sub_section_analysis from analyze_documents.
C13_NoTextIsNotAnError ==
    /\ ( /\ a_pc = "done"
          /\ pdf.readable
          /\ AllSpans(pdf.pages) = <<>>
          /\ outline_result # OutlineError("unexpected failure") )
       => /\ "error" \notin DOMAIN outline_result
          /\ outline_result.outline = <<>>
    /\ ( /\ b_pc = "done"
          /\ \A i \in 1..Len(pdf_paths) :
                 /\ pdf_paths[i].readable
                 /\ \A p \in 1..Len(pdf_paths[i].pages) : pdf_paths[i].pages[p] = <<>>
          /\ analysis_result \notin {[error |-> "unexpected failure"],
                                     [error |-> "cannot read page"]} )
       => /\ "error" \notin DOMAIN analysis_result
          /\ analysis_result.extracted_sections = <<>>
          /\ analysis_result.sub_section_analysis = <<>>

\* the number of heading candidate sizes strictly above a size
Above(size, sizes) == Cardinality({i \in 1..Len(sizes) : sizes[i] > size})

\* C14 as stated: the level of a line accepted by the font strategy whose
\* size is one of the heading candidate sizes is given by the rank of that
\* size in the descending list: H1 for the largest, H2 for the second, H3 for
\* every lower one.
C14_LevelIsRankOfSize ==
    (a_pc = "page" /\ page_num >= 1) =>
        \A i \in 1..Len(font_headings) :
            LET sizes == font_stats.heading_font_sizes
                size == round1(font_headings[i].font_size)
            IN  (\E k \in 1..Len(sizes) : sizes[k] = size) =>
                    font_headings[i].level = HLevel(Min(Above(size, sizes) + 1, 3))

\* C14 as amended: the level of a line accepted by the font strategy is H2
\* when there is no heading candidate size; otherwise, with n the number of
\* candidate sizes that exceed the line's size by more than 0.5pt, it is H3
\* when n is the length of the list and H1, H2, H3 for n = 0, 1, 2 or more
\* when it is not: a size up to 0.5pt below a larger candidate size takes the
\* level of the larger size.
C14_LevelIsRankWithTolerance ==
    (a_pc = "page" /\ page_num >= 1) =>
        \A i \in 1..Len(font_headings) :
            LET sizes == font_stats.heading_font_sizes
                n == Above(font_headings[i].font_size + 50, sizes)
            IN  /\ font_headings[i].font_size
                       > font_stats.body_font_size + font_size_threshold
                /\ font_headings[i].level =
                       IF sizes = <<>> THEN "H2"
                       ELSE IF n = Len(sizes) THEN "H3"
                       ELSE HLevel(Min(n + 1, 3))

\* C14 witness: a line whose size is the second of the candidate sizes, less
\* than 0.5pt below the first, was accepted by the font strategy
C14_Witness ==
    /\ a_pc = "page"
    /\ page_num >= 1
    /\ Len(font_stats.heading_font_sizes) >= 2
    /\ \E i \in 1..Len(font_headings) :
           /\ font_headings[i].font_size = font_stats.heading_font_sizes[2]
           /\ font_headings[i].font_size >= font_stats.heading_font_sizes[1] - 50

\* the lines of the page just processed that are fully upper-case, of length
\* at least 3 and less than 80, as the pattern strategy reads them
UpperCaseLines ==
    LET lines == split_nl(get_text(pdf.pages[page_num]))
    IN  {strip(lines[i]) : i \in {k \in 1..Len(lines) :
                                     /\ isupper(strip(lines[k]))
                                     /\ Len(strip(lines[k])) >= 3
                                     /\ Len(strip(lines[k])) < 80}}

\* the line contains one of the common heading words, in any case
HasCommonHeading(line) ==
    \E k \in 1..Len(common_headings) : contains(lower(line), common_headings[k])

\* the pattern strategy proposed an H2 heading of this text for the page
PatternProposesH2(text) ==
    \E i \in 1..Len(pattern_headings) :
        /\ pattern_headings[i].level = "H2"
        /\ pattern_headings[i].text = text
        /\ pattern_headings[i].page = page_num

\* C15 as stated: for every fully upper-case line of length at least 3 and
\* less than 80, the pattern strategy produces an H2 candidate whose text is
\* the line in title case.
C15_UpperCaseLineBecomesTitleCaseH2 ==
    (a_pc = "page" /\ page_num >= 1) =>
        \A line \in UpperCaseLines : PatternProposesH2(title_case(line))

\* C15 as amended: for every such line that has no leading numeric marker and
\* contains no common heading word, the pattern strategy produces an H2
\* candidate whose text is the line in title case; for every such line without
\* a marker that contains a common heading word, it produces an H2 candidate
\* whose text is the line as it is, and none in title case.
C15_UpperCaseLineWithoutMarkerOrKeyword ==
    (a_pc = "page" /\ page_num >= 1) =>
        \A line \in UpperCaseLines :
            numbered_match(line) = 0 =>
                IF HasCommonHeading(line)
                THEN PatternProposesH2(line) /\ ~PatternProposesH2(title_case(line))
                ELSE PatternProposesH2(title_case(line))

\* C15 witness: the pattern strategy has read the upper-case line
\* "KEY  FACTS" and proposed a heading in title case
C15_Witness ==
    /\ a_pc = "page"
    /\ page_num >= 1
    /\ \E line \in UpperCaseLines :
           /\ numbered_match(line) = 0
           /\ ~HasCommonHeading(line)
           /\ title_case(line) # line
           /\ PatternProposesH2(title_case(line))

\* the keywords of the request, persona_keywords + job_keywords, as a set
KeywordSet ==
    LET ks == _extract_keywords(lower(request.persona))
                  \o _extract_keywords(lower(request.job))
    IN  {ks[i] : i \in 1..Len(ks)}

\* the texts of the pooled sections
PoolTexts ==
    LET pool == all_sections(ReadableContent(pdf_paths))
    IN  [i \in 1..Len(pool) |-> pool[i].content]

\* the number of distinct keywords of the request that occur in a text
DistinctMatches(t) == Cardinality({kw \in KeywordSet : has_keyword(t, kw)})

\* the reference keyword score of text i of the pool, in ten-thousandths:
\* distinct matches by max(word_count, 1), scaled by the largest such
\* quotient of the pool, 0 when the largest is 0
ReferenceKeywordScore(i) ==
    LET m(k) == DistinctMatches(PoolTexts[k])
        w(k) == Max(word_count(PoolTexts[k]), 1)
        top == CHOOSE k \in 1..Len(PoolTexts) :
                   \A j \in 1..Len(PoolTexts) : m(j) * w(k) <= m(k) * w(j)
    IN  IF m(top) > 0 THEN (10000 * m(i) * w(top)) \div (w(i) * m(top)) ELSE 0

\* C16: for every pool of section texts and every persona and job, the
\* keyword score of section i is the reference value: the number of distinct
\* keywords of the combined persona-and-job keyword set (a keyword of both
\* counted once) that occur in the content, divided by max(word_count, 1),
\* then normalized across the sections into [0,1], all 0 when the maximum is 0.
C16_KeywordScoreCountsDistinctKeywords ==
    (b_pc \in {"section", "sentence", "return"} /\ keyword_scores # <<>>) =>
        /\ Len(keyword_scores) = Len(PoolTexts)
        /\ \A i \in 1..Len(keyword_scores) :
               /\ keyword_scores[i] = ReferenceKeywordScore(i)
               /\ keyword_scores[i] >= 0
               /\ keyword_scores[i] <= 10000

\* the lines of a page that carry text and are not section headers
BodyLines(page) ==
    {i \in 1..Len(page) : b_line_text(page[i]) # <<>> /\ ~is_header(page[i])}

\* the most recent header line of the page before line i, 0 when there is none
HeaderBefore(page, i) ==
    LET hs == {h \in 1..(i - 1) : is_header(page[h])}
    IN  IF hs = {} THEN 0 ELSE CHOOSE h \in hs : \A g \in hs : g <= h

\* the headers of the page, 0 for none, that have body lines under them
HeadersWithBody(page) == {HeaderBefore(page, i) : i \in BodyLines(page)}

\* the j-th of them in reading order
NthHeader(page, j) ==
    CHOOSE h \in HeadersWithBody(page) :
        Cardinality({g \in HeadersWithBody(page) : g < h}) = j - 1

\* the text of the body lines under header h, in reading order
BodyUnder(page, h) ==
    Flatten([i \in 1..Len(page) |->
                IF i \in BodyLines(page) /\ HeaderBefore(page, i) = h
                THEN b_line_text(page[i]) ELSE <<>>])

\* C17: on every page the segmenter puts the text of each non-header line
\* in exactly one section, in reading order, under the most recent header
\* line of the same page before it, or under an empty title when there is
\* none; no section has blank content, no section spans pages, and a page
\* without a header line yields at most one section, under an empty title,
\* with all its body text.  documents_content is compared with the files
\* while the loop over pdf_paths fills it; nothing changes it afterwards.
C17_LinesGoUnderMostRecentHeader ==
    b_pc = "extract" =>
    \A d \in 1..Len(documents_content) :
        /\ Len(documents_content[d].pages) = Len(pdf_paths[d].pages)
        /\ \A p \in 1..Len(documents_content[d].pages) :
               LET page == pdf_paths[d].pages[p]
                   secs == documents_content[d].pages[p].sections
               IN  /\ documents_content[d].pages[p].page_number = p
                   /\ Len(secs) = Cardinality(HeadersWithBody(page))
                   /\ \A j \in 1..Len(secs) :
                          LET h == NthHeader(page, j)
                          IN  /\ secs[j].title =
                                     IF h = 0 THEN <<>> ELSE b_line_text(page[h])
                              /\ secs[j].content = BodyUnder(page, h)
                              /\ secs[j].content # <<>>
                   /\ (\A i \in 1..Len(page) : ~is_header(page[i])) => Len(secs) <= 1

\* C17 witness: a page was segmented into a section under an empty title
\* followed by sections under headers, one of them holding several lines,
\* while it has a large line that is no header
C17_Witness ==
    b_pc = "extract" /\
    \E d \in 1..Len(documents_content) :
        \E p \in 1..Len(documents_content[d].pages) :
            LET page == pdf_paths[d].pages[p]
                secs == documents_content[d].pages[p].sections
            IN  /\ Len(secs) >= 3
                /\ secs[1].title = <<>>
                /\ secs[2].title # <<>>
                /\ Cardinality({i \in BodyLines(page) : HeaderBefore(page, i)
                                                          = NthHeader(page, 2)}) >= 3
                /\ \E i \in BodyLines(page) : line_font_size(page[i]) > 1200

\* the texts of the candidates the sentence loop emits from sentence i + 1 on,
\* in emission order, when it holds the buffer buf before that sentence
RECURSIVE EmittedCandidates(_, _, _)
EmittedCandidates(sents, i, buf) ==
    IF i >= Len(sents) THEN <<>>
    ELSE LET b == buf \o sents[i + 1]
         IN  IF ((i + 1) % 3 = 0 \/ i = Len(sents) - 1) /\ text_len(b) > 100
             THEN <<b>> \o EmittedCandidates(sents, i + 1, <<>>)
             ELSE EmittedCandidates(sents, i + 1, b)

\* the subsections appended so far for the section the loop is at
AppendedForSection ==
    SubSeq(sub_sections, Len(sub_sections) - appended + 1, Len(sub_sections))

\* C18: every subsection_id is {document}_p{page}_s{sequence} with the
\* document and page of the originating section, and the sequence is the
\* number, from 1 for each section, of the candidate among the candidates the
\* section emitted, in emission order; in a returned result every
\* subsection_id carries the document and page of its own entry and a
\* sequence of at least 1.
C18_SubsectionIdNumbersCandidates ==
    /\ b_pc = "sentence" =>
          LET section == relevant_sections[section_idx + 1]
              cands == EmittedCandidates(sentences, 0, <<>>)
              mine == AppendedForSection
          IN  /\ subsection_count <= Len(cands)
              /\ \A k \in 1..Len(mine) :
                     /\ mine[k].subsection_id.document = section.document
                     /\ mine[k].subsection_id.p = section.page_number
                     /\ mine[k].subsection_id.s \in 1..subsection_count
                     /\ mine[k].refined_text = cands[mine[k].subsection_id.s]
              /\ \A k \in 1..(Len(mine) - 1) :
                     mine[k].subsection_id.s < mine[k + 1].subsection_id.s
    /\ AnalysisReturned =>
          \A k \in 1..Len(analysis_result.sub_section_analysis) :
              LET e == analysis_result.sub_section_analysis[k]
              IN  /\ DOMAIN e.subsection_id = {"document", "p", "s"}
                  /\ e.subsection_id.document = e.document
                  /\ e.subsection_id.p = e.page_number
                  /\ e.subsection_id.s >= 1

\* C18 witness: a subsection of the third candidate of a section was appended
\* after a candidate of that section was discarded for its score
C18_Witness ==
    /\ b_pc = "sentence"
    /\ appended \in {1, 2}
    /\ subsection_count = 3
    /\ AppendedForSection[appended].subsection_id.s = 3
    /\ section_idx >= 1

\* the largest of a set of numbers, 0 for the empty set
Largest(S) == IF S = {} THEN 0 ELSE CHOOSE x \in S : \A y \in S : y <= x

\* the largest font size of the document
DocumentMaxSize(d) ==
    Largest({AllSpans(d.pages)[i].size : i \in 1..Len(AllSpans(d.pages))})

\* the largest font size among the first-page spans whose trimmed text is
\* longer than 3
FirstPageMaxSize(d) ==
    LET spans == Flatten(d.pages[1])
    IN  Largest({spans[i].size : i \in {k \in 1..Len(spans) :
                                            Len(strip(spans[k].text)) > 3}})

\* The title rule of the claim, for a maximum size: among the first-page
\* spans with trimmed length > 3, size >= maximum - 1 and position < 200, the
\* first of the longest, whitespace-collapsed; when that exceeds 100
\* characters and a candidate of at most 100 exists, the first such candidate;
\* without candidates the non-empty metadata title, else "Untitled Document".
TitleAmong(d, max_size) ==
    LET spans == Flatten(d.pages[1])
        text(i) == strip(spans[i].text)
        cands == {i \in 1..Len(spans) : /\ Len(text(i)) > 3
                                          /\ spans[i].size >= max_size - 100
                                          /\ spans[i].y < 200}
        best == CHOOSE i \in cands :
                    \A j \in cands : /\ Len(text(j)) <= Len(text(i))
                                      /\ j < i => Len(text(j)) < Len(text(i))
        short == {i \in cands : Len(text(i)) <= 100}
    IN  IF cands # {}
        THEN (IF Len(strip(sub_ws(text(best)))) > 100 /\ short # {}
              THEN text(CHOOSE i \in short : \A j \in short : i <= j)
              ELSE strip(sub_ws(text(best))))
        ELSE IF strip(d.metadata_title) # <<>> THEN strip(d.metadata_title)
        ELSE <<"U", "n", "t", "i", "t", "l", "e", "d", " ", "D", "o", "c", "u", "m", "e", "n", "t">>

C20_SubsectionIdsAreDistinct ==
    ( /\ AnalysisReturned
      /\ \A i, j \in 1..Len(pdf_paths) :
             i # j => pdf_paths[i].filename # pdf_paths[j].filename )
    => \A i, j \in 1..Len(analysis_result.sub_section_analysis) :
           i # j => analysis_result.sub_section_analysis[i].subsection_id
                        # analysis_result.sub_section_analysis[j].subsection_id

\* C21: every document handle opened by extract_outline or by
\* _extract_pdf_content is closed when the entry point has returned, on the
\* success path and on every failure path.
C21_HandlesClosedAtReturn ==
    /\ a_pc = "done" => doc # "open"
    /\ b_pc = "done" => open_docs = 0

====
